---- MODULE Spec2Model ----
(***************************************************************************)
(* A model of src/src/analysis.py: the cocoa data pipeline                 *)
(*   load_data -> process_countries_data -> clean_and_sort -> save_table   *)
(*   -> plot_scatter -> plot_bar (per country) -> plot_combined.           *)
(*                                                                         *)
(* A DataFrame is a record [cols, index, rows]: the ordered column names,  *)
(* the row labels and the rows (functions from column name to cell).       *)
(* A cell is a record [t, v, s]:                                           *)
(*   t = "int"    an int64 value v                                         *)
(*   t = "float"  a finite float64 value, v counts tenths (19615 = 1961.5) *)
(*   t = "inf"    the float64 infinity                                     *)
(*   t = "nan"    a missing value (NaN)                                    *)
(*   t = "str"    a Python string, s is its text                           *)
(* A text is a sequence of symbols: the decimal digits and "." are single  *)
(* characters, every other symbol stands for a whole non-numeric word.     *)
(* A CSV file is a record [header, lines], lines a sequence of sequences   *)
(* of texts.                                                               *)
(***************************************************************************)
EXTENDS Integers, Sequences, FiniteSets, TLC

VARIABLES
    pc,           \* main(): the statement of main() that runs next
    raised,       \* main(): "none", or the exception that ended the run
    df,           \* main(): the loaded raw table
    ghana_table,  \* main(): the Ghana table (reshaped, then cleaned)
    coast_table,  \* main(): the Cote d'Ivoire table (reshaped, then cleaned)
    files,        \* the output directory: file name -> content
    stdout,       \* the lines printed so far
    passed,       \* the last call: the table(s) passed in, before and after it
    infile,       \* the CSV file given to load_data
    entity,       \* the country argument of a single reshape call
    phase,        \* position of the function-level scenarios
    arg,          \* the table given to clean_and_sort
    ret,          \* the table clean_and_sort returned
    labels,       \* the row labels of ret before reset_index (line 45)
    reloaded,     \* the table read back from the file save_table wrote
    ret2,         \* the table clean_and_sort returned for reloaded
    pivot         \* the table process_countries_data returned

vars == <<pc, raised, df, ghana_table, coast_table, files, stdout, passed,
          infile, entity, phase, arg, ret, labels, reloaded, ret2, pivot>>

mainVars == <<pc, raised, df, ghana_table, coast_table, stdout, passed>>
unitVars == <<entity, phase, arg, ret, labels, reloaded, ret2, pivot>>

\* ------------------------------------------------------------------ bounds

\* The largest number of data lines of an input file.
MaxRows == 2

\* ------------------------------------------------------------------- cells

I64(n) == [t |-> "int", v |-> n, s |-> <<>>]
F64(x) == [t |-> "float", v |-> x, s |-> <<>>]
Inf == [t |-> "inf", v |-> 0, s |-> <<>>]
NaN == [t |-> "nan", v |-> 0, s |-> <<>>]
Str(txt) == [t |-> "str", v |-> 0, s |-> txt]

\* pandas isna: only NaN is missing; infinity and strings are values.
isna(c) == c.t = "nan"

Range(f) == {f[i] : i \in DOMAIN f}

\* ------------------------------------------------------------------- texts

Digits == {"0", "1", "2", "3", "4", "5", "6", "7", "8", "9"}

DigitVal(ch) ==
    CASE ch = "0" -> 0 [] ch = "1" -> 1 [] ch = "2" -> 2 [] ch = "3" -> 3
      [] ch = "4" -> 4 [] ch = "5" -> 5 [] ch = "6" -> 6 [] ch = "7" -> 7
      [] ch = "8" -> 8 [] ch = "9" -> 9

DigitChar(d) ==
    CASE d = 0 -> "0" [] d = 1 -> "1" [] d = 2 -> "2" [] d = 3 -> "3"
      [] d = 4 -> "4" [] d = 5 -> "5" [] d = 6 -> "6" [] d = 7 -> "7"
      [] d = 8 -> "8" [] d = 9 -> "9"

IsDigits(txt) == Len(txt) > 0 /\ \A i \in 1..Len(txt) : txt[i] \in Digits

RECURSIVE DigitsVal(_)
DigitsVal(txt) ==
    IF txt = <<>> THEN 0
    ELSE 10 * DigitsVal(SubSeq(txt, 1, Len(txt) - 1)) + DigitVal(txt[Len(txt)])

\* digits "." digit: a decimal literal (the model keeps one fractional digit).
IsDecimal(txt) ==
    /\ Len(txt) >= 3
    /\ txt[Len(txt) - 1] = "."
    /\ txt[Len(txt)] \in Digits
    /\ IsDigits(SubSeq(txt, 1, Len(txt) - 2))

IsNumericText(txt) == txt = <<"inf">> \/ IsDigits(txt) \/ IsDecimal(txt)

\* The value a numeric text parses to, as a float64.
ParseFloat(txt) ==
    IF txt = <<"inf">> THEN Inf
    ELSE IF IsDigits(txt) THEN F64(10 * DigitsVal(txt))
    ELSE F64(10 * DigitsVal(SubSeq(txt, 1, Len(txt) - 2)) + DigitVal(txt[Len(txt)]))

RECURSIVE IntText(_)
IntText(n) ==
    IF n < 10 THEN <<DigitChar(n)>>
    ELSE Append(IntText(n \div 10), DigitChar(n % 10))

\* The order of characters (their code points), for sorting strings.
SymRank(ch) ==
    IF ch = "." THEN 0
    ELSE IF ch \in Digits THEN 1 + DigitVal(ch)
    ELSE IF ch = "N/A" THEN 11
    ELSE IF ch = "abc" THEN 12
    ELSE IF ch = "inf" THEN 13
    ELSE 14

RECURSIVE TextLE(_, _)
TextLE(a, b) ==
    IF a = <<>> THEN TRUE
    ELSE IF b = <<>> THEN FALSE
    ELSE IF SymRank(a[1]) # SymRank(b[1]) THEN SymRank(a[1]) < SymRank(b[1])
    ELSE TextLE(Tail(a), Tail(b))

\* --------------------------------------------------------------- load_data

\* The texts pd.read_csv reads as missing (its default na_values).
NaStrings == {<<>>, <<"N/A">>, <<"NaN">>}

\* A column of a numeric dtype holds int64 only if every cell is an integer;
\* otherwise its integers are float64 too.
UnifyNumeric(cells) ==
    IF \A i \in DOMAIN cells : cells[i].t = "int" THEN cells
    ELSE [i \in DOMAIN cells |->
            IF cells[i].t = "int" THEN F64(10 * cells[i].v) ELSE cells[i]]

\* read_csv's dtype inference for one column of field texts.
ReadColumn(fields) ==
    IF \A i \in DOMAIN fields : fields[i] \in NaStrings \/ IsNumericText(fields[i])
    THEN UnifyNumeric([i \in DOMAIN fields |->
            IF fields[i] \in NaStrings THEN NaN
            ELSE IF IsDigits(fields[i]) THEN I64(DigitsVal(fields[i]))
            ELSE ParseFloat(fields[i])])
    ELSE [i \in DOMAIN fields |->
            IF fields[i] \in NaStrings THEN NaN ELSE Str(fields[i])]

RECURSIVE SelectLines(_)
\* skip_blank_lines: a line that is empty (a single empty field) is not a row.
SelectLines(lines) ==
    IF lines = <<>> THEN <<>>
    ELSE IF lines[1] = << <<>> >> THEN SelectLines(Tail(lines))
    ELSE <<lines[1]>> \o SelectLines(Tail(lines))

RangeIndex(n) == [i \in 1..n |-> i - 1]

\* pd.read_csv(file_path): header row, inferred dtypes, a fresh 0..n-1 index.
load_data(file) ==
    LET lines == SelectLines(file.lines)
        n == Len(lines)
        hdr == file.header
        col(j) == ReadColumn([i \in 1..n |-> lines[i][j]])
        pos(c) == CHOOSE j \in 1..Len(hdr) : hdr[j] = c
    IN  [cols |-> hdr,
         index |-> RangeIndex(n),
         rows |-> [i \in 1..n |-> [c \in Range(hdr) |-> col(pos(c))[i]]]]

\* -------------------------------------------------------------- save_table

\* The text to_csv writes for a cell: repr of the number, nothing for NaN.
FormatCell(c) ==
    CASE c.t = "int" -> IntText(c.v)
      [] c.t = "float" -> IntText(c.v \div 10) \o <<".", DigitChar(c.v % 10)>>
      [] c.t = "inf" -> <<"inf">>
      [] c.t = "nan" -> <<>>
      [] c.t = "str" -> c.s

\* Mutant of to_csv: index=False left out, the row labels are written as a
\* first, unnamed column.
to_csv_with_index(t) ==
    [header |-> <<"Unnamed: 0">> \o t.cols,
     lines |-> [i \in 1..Len(t.rows) |->
                  <<IntText(t.index[i])>> \o
                  [j \in 1..Len(t.cols) |-> FormatCell(t.rows[i][t.cols[j]])]]]

\* df.to_csv(file_path, index=False): the header, then one line per row.
to_csv(t) ==
    [header |-> t.cols,
     lines |-> [i \in 1..Len(t.rows) |->
                  [j \in 1..Len(t.cols) |-> FormatCell(t.rows[i][t.cols[j]])]]]

\* ------------------------------------------------------------ table helpers

Column(t, c) == [i \in 1..Len(t.rows) |-> t.rows[i][c]]

HasColumn(t, c) == \E j \in 1..Len(t.cols) : t.cols[j] = c

\* df[c] = cells
WithColumn(t, c, cells) ==
    [t EXCEPT !.rows = [i \in 1..Len(t.rows) |-> [t.rows[i] EXCEPT ![c] = cells[i]]]]

\* The rows at positions idx[1], idx[2], ..., with their labels.
TakeRows(t, idx) ==
    [cols |-> t.cols,
     index |-> [k \in 1..Len(idx) |-> t.index[idx[k]]],
     rows |-> [k \in 1..Len(idx) |-> t.rows[idx[k]]]]

Positions(n) == [i \in 1..n |-> i]

\* df.dropna(subset=[c]): the rows whose cell in column c is not missing.
dropna(t, c) ==
    TakeRows(t, SelectSeq(Positions(Len(t.rows)), LAMBDA i : ~isna(t.rows[i][c])))

\* Mutant of reset_index: the labels are kept.
keep_index(t) == t

\* df.reset_index(drop=True)
reset_index(t) == [t EXCEPT !.index = RangeIndex(Len(t.rows))]

Min(S) == CHOOSE x \in S : \A y \in S : x <= y

\* The order of two cells of one column: numbers by value, infinity last,
\* strings by their characters.
CellLE(a, b) ==
    IF a.t = "str" /\ b.t = "str" THEN TextLE(a.s, b.s)
    ELSE IF b.t = "inf" THEN TRUE
    ELSE IF a.t = "inf" THEN FALSE
    ELSE a.v <= b.v

RECURSIVE SortCells(_)
\* The distinct cells of S in ascending order.
SortCells(S) ==
    IF S = {} THEN <<>>
    ELSE LET m == CHOOSE x \in S : \A y \in S : CellLE(x, y)
         IN  <<m>> \o SortCells(S \ {m})

\* -------------------------------------------------- process_countries_data

MetricColumns == <<"Area harvested", "Yield", "Production">>

\* Mutant of AggFirst: aggfunc="last".
AggLast(values) ==
    LET valid == {i \in DOMAIN values : ~isna(values[i])}
    IN  IF valid = {} THEN NaN ELSE values[CHOOSE i \in valid : \A j \in valid : j <= i]

\* aggfunc="first" (GroupBy.first): the first value of the group that is not
\* missing, in row order; missing if the group has none.
AggFirst(values) ==
    LET valid == {i \in DOMAIN values : ~isna(values[i])}
    IN  IF valid = {} THEN NaN ELSE values[Min(valid)]

process_countries_data(t, country) ==
    LET \* line 11: df[df["Area"] == country]
        country_rows == SelectSeq(Positions(Len(t.rows)),
                            LAMBDA i : t.rows[i]["Area"] = Str(<<country>>))
        \* groupby([Year, Element]) leaves out the rows with a missing key
        keyed == SelectSeq(country_rows,
                    LAMBDA i : ~isna(t.rows[i]["Year"]) /\ ~isna(t.rows[i]["Element"]))
        GroupValues(y, e) ==
            LET members == SelectSeq(keyed,
                    LAMBDA i : t.rows[i]["Year"] = y /\ t.rows[i]["Element"] = e)
            IN  [k \in 1..Len(members) |-> t.rows[members[k]]["Value"]]
        groups == {<<t.rows[keyed[k]]["Year"], t.rows[keyed[k]]["Element"]>> :
                      k \in 1..Len(keyed)}
        \* pivot_table(dropna=True): groups whose aggregate is missing are dropped
        kept == {g \in groups : ~isna(AggFirst(GroupValues(g[1], g[2])))}
        years == SortCells({g[1] : g \in kept})
        n == Len(years)
        \* lines 26-28: the columns of cols that the pivot produced
        existing == SelectSeq(MetricColumns,
                        LAMBDA m : \E g \in kept : g[2] = Str(<<m>>))
        cell(y, m) ==
            IF <<y, Str(<<m>>)>> \in kept
            THEN AggFirst(GroupValues(y, Str(<<m>>))) ELSE NaN
        metric(m) == UnifyNumeric([k \in 1..n |-> cell(years[k], m)])
        cols == <<"Year">> \o existing
    IN  [cols |-> cols,
         index |-> RangeIndex(n),
         rows |-> [k \in 1..n |->
                    [c \in Range(cols) |->
                       IF c = "Year" THEN years[k] ELSE metric(c)[k]]]]

\* ---------------------------------------------------------- clean_and_sort

\* pd.to_numeric(x, errors='coerce') for one cell: a numeric text becomes its
\* number, any other text becomes missing, a number stays as it is.
ToNumericCell(c) ==
    IF c.t # "str" THEN c
    ELSE IF IsDigits(c.s) THEN I64(DigitsVal(c.s))
    ELSE IF IsNumericText(c.s) THEN ParseFloat(c.s)
    ELSE NaN

to_numeric(cells) == UnifyNumeric([i \in DOMAIN cells |-> ToNumericCell(cells[i])])

\* numeric-to-integer conversion truncates toward zero
Trunc(x) == IF x >= 0 THEN x \div 10 ELSE -((-x) \div 10)

AsIntCell(c) == IF c.t = "float" THEN I64(Trunc(c.v)) ELSE c

\* line 37
YearParsed(t) == WithColumn(t, "Year", to_numeric(Column(t, "Year")))

\* Mutant of YearDropped: line 38 left out.
YearKept(t) == YearParsed(t)

\* line 38
YearDropped(t) == dropna(YearParsed(t), "Year")

\* line 39: astype(int) raises IntCastingNaNError on a non-finite value
YearCastRaises(t) == \E i \in 1..Len(t.rows) : t.rows[i]["Year"].t = "inf"

YearAsInt(t) ==
    WithColumn(t, "Year", [i \in 1..Len(t.rows) |-> AsIntCell(t.rows[i]["Year"])])

RECURSIVE CoerceMetricsDroppingRows(_, _)
\* Mutant of CoerceMetrics: a row whose metric does not parse is dropped.
CoerceMetricsDroppingRows(t, names) ==
    IF names = <<>> THEN t
    ELSE LET c == Head(names)
             u == IF HasColumn(t, c)
                  THEN dropna(WithColumn(t, c, to_numeric(Column(t, c))), c)
                  ELSE t
         IN  CoerceMetricsDroppingRows(u, Tail(names))

RECURSIVE CoerceMetrics(_, _)
\* lines 41-43
CoerceMetrics(t, names) ==
    IF names = <<>> THEN t
    ELSE LET c == Head(names)
             u == IF HasColumn(t, c) THEN WithColumn(t, c, to_numeric(Column(t, c)))
                  ELSE t
         IN  CoerceMetrics(u, Tail(names))

Perms(n) == {p \in [1..n -> 1..n] : \A i, j \in 1..n : i # j => p[i] # p[j]}

\* line 45, sort_values('Year'): kind defaults to 'quicksort', which orders the
\* keys and promises nothing about rows with equal keys (numpy's quicksort is
\* an introsort or a SIMD sort, depending on the build). Every ascending
\* arrangement is a possible outcome.
SortOrders(t) ==
    {p \in Perms(Len(t.rows)) :
        \A i \in 1..(Len(t.rows) - 1) :
            t.rows[p[i]]["Year"].v <= t.rows[p[i + 1]]["Year"].v}

sort_values(t) == {TakeRows(t, p) : p \in SortOrders(t)}

clean_raises(t) == YearCastRaises(YearDropped(t))

\* The tables clean_and_sort can return for t, each with the labels its rows
\* had before reset_index.
clean_and_sort(t) ==
    {[ret |-> reset_index(s), labels |-> s.index] :
        s \in sort_values(CoerceMetrics(YearAsInt(YearDropped(t)), MetricColumns))}

\* Mutant of clean_and_sort_arg: line 36 left out, line 37 assigns into the
\* caller's table.
clean_and_sort_in_place(t) == YearParsed(t)

\* line 36: df = df.copy(). The assignment of line 37 goes to the copy, so the
\* caller's table is what it was. [before, after] of the table passed in.
clean_and_sort_arg(t) == t

\* ------------------------------------------------------------ chart renderers

\* Mutant of PlotSkips: only the column is checked (lines 55-58, 79-82 left out).
PlotSkipsIfNoColumn(t, metric) == ~HasColumn(t, metric)

\* lines 51-58 and 75-82: the chart is skipped when the metric column is absent
\* or no row has a value in it.
PlotSkips(t, metric) ==
    \/ ~HasColumn(t, metric)
    \/ Len(dropna(t, metric).rows) = 0

\* What a panel draws: Year against the metric, for the rows that have a value.
Panel(t, metric) ==
    LET df_plot == dropna(t, metric)
    IN  [x |-> Column(df_plot, "Year"), y |-> Column(df_plot, metric)]

\* The notice a single-country chart prints (lines 52, 57, 70 and 76, 81, 94).
PlotNotice(t, metric, chart, country_name) ==
    [chart |-> chart, who |-> country_name,
     msg |-> IF ~HasColumn(t, metric) THEN "column not found"
             ELSE IF PlotSkips(t, metric) THEN "no valid values"
             ELSE "saved"]

\* lines 103, 112, 121, 130: dropna(subset=[c]) raises KeyError when the table
\* has no column c; plot_combined checks for no column.
CombinedRaises(g, c) ==
    \/ ~HasColumn(g, "Yield")
    \/ ~HasColumn(c, "Yield")
    \/ ~HasColumn(g, "Area harvested")
    \/ ~HasColumn(c, "Area harvested")

\* The 2x2 figure of plot_combined.
CombinedFigure(g, c) ==
    <<Panel(g, "Yield"), Panel(c, "Yield"),
      Panel(g, "Area harvested"), Panel(c, "Area harvested")>>

\* -------------------------------------------------------------------- main

Ghana == "Ghana"
Coast == "Côte d'Ivoire"
Countries == {Ghana, Coast}

TableFile(e) == IF e = Ghana THEN "ghana_table.csv" ELSE "coast_table.csv"
ScatterFile(e) ==
    IF e = Ghana THEN "ghana_yield_scatter.png" ELSE "coast_yield_scatter.png"
BarFile(e) == IF e = Ghana THEN "ghana_area_bar.png" ELSE "coast_area_bar.png"
CombinedFile == "combined_plots.pdf"

\* pc is the line of main() that runs next; 175 is past its last statement.
ReshapeLine(e) == IF e = Ghana THEN 158 ELSE 165
CleanLine(e) == ReshapeLine(e) + 1
SaveLine(e) == ReshapeLine(e) + 2
ScatterLine(e) == ReshapeLine(e) + 3
BarLine(e) == ReshapeLine(e) + 4

NextLine(l) ==
    CASE l = 155 -> 158
      [] l = 162 -> 165
      [] l = 169 -> 172
      [] l = 172 -> 174
      [] OTHER -> l + 1

\* The statements that touch the file system.
IOLines == {155, 160, 161, 162, 167, 168, 169, 172}

NoTable == [cols |-> <<>>, index |-> <<>>, rows |-> <<>>]
NoCall == [fn |-> "none", before |-> <<>>, after |-> <<>>]

TableOf(e) == IF e = Ghana THEN ghana_table ELSE coast_table

Bind(e, t) ==
    IF e = Ghana THEN ghana_table' = t /\ UNCHANGED coast_table
    ELSE coast_table' = t /\ UNCHANGED ghana_table

\* Writing a file creates it or replaces its content.
WriteFile(fs, name, content) ==
    [n \in DOMAIN fs \cup {name} |-> IF n = name THEN content ELSE fs[n]]

\* plot_scatter / plot_bar on the directory fs: the file is written unless
\* the chart is skipped (lines 67-68 and 91-92).
PlotFiles(fs, t, metric, chart, filename) ==
    IF PlotSkips(t, metric) THEN fs
    ELSE WriteFile(fs, filename, [chart |-> chart, panels |-> <<Panel(t, metric)>>])

\* Mutant of Running: the exception is swallowed and main() goes on.
RunningDespiteError(l) == pc = l

\* A statement of main() runs when control is at its line and no exception
\* has ended the run.
Running(l) == pc = l /\ raised = "none"

\* line 155
Load ==
    /\ Running(155)
    /\ df' = load_data(infile)
    /\ pc' = NextLine(pc)
    /\ passed' = NoCall
    /\ UNCHANGED <<raised, ghana_table, coast_table, files, stdout, infile, unitVars>>

\* lines 158 and 165
Reshape(e) ==
    /\ Running(ReshapeLine(e))
    /\ Bind(e, process_countries_data(df, e))
    /\ passed' = [fn |-> "process_countries_data", before |-> <<df>>, after |-> <<df>>]
    /\ pc' = NextLine(pc)
    /\ UNCHANGED <<raised, df, files, stdout, infile, unitVars>>

\* lines 159 and 166
Clean(e) ==
    /\ Running(CleanLine(e))
    /\ passed' = [fn |-> "clean_and_sort", before |-> <<TableOf(e)>>,
                  after |-> <<clean_and_sort_arg(TableOf(e))>>]
    /\ IF clean_raises(TableOf(e))
       THEN /\ raised' = "IntCastingNaNError"
            /\ UNCHANGED <<pc, ghana_table, coast_table>>
       ELSE /\ \E o \in clean_and_sort(TableOf(e)) : Bind(e, o.ret)
            /\ pc' = NextLine(pc)
            /\ UNCHANGED raised
    /\ UNCHANGED <<df, files, stdout, infile, unitVars>>

\* lines 160 and 167
Save(e) ==
    /\ Running(SaveLine(e))
    /\ files' = WriteFile(files, TableFile(e), to_csv(TableOf(e)))
    /\ passed' = [fn |-> "save_table", before |-> <<TableOf(e)>>, after |-> <<TableOf(e)>>]
    /\ pc' = NextLine(pc)
    /\ UNCHANGED <<raised, df, ghana_table, coast_table, stdout, infile, unitVars>>

Plot(e, chart, metric, filename) ==
    /\ files' = PlotFiles(files, TableOf(e), metric, chart, filename)
    /\ stdout' = Append(stdout, PlotNotice(TableOf(e), metric, chart, e))
    /\ passed' = [fn |-> chart, before |-> <<TableOf(e)>>, after |-> <<TableOf(e)>>]
    /\ pc' = NextLine(pc)
    /\ UNCHANGED <<raised, df, ghana_table, coast_table, infile, unitVars>>

\* lines 161 and 168
Scatter(e) ==
    /\ Running(ScatterLine(e))
    /\ Plot(e, "plot_scatter", "Yield", ScatterFile(e))

\* lines 162 and 169
Bar(e) ==
    /\ Running(BarLine(e))
    /\ Plot(e, "plot_bar", "Area harvested", BarFile(e))

\* line 172
Combined ==
    /\ Running(172)
    /\ passed' = [fn |-> "plot_combined", before |-> <<ghana_table, coast_table>>,
                  after |-> <<ghana_table, coast_table>>]
    /\ IF CombinedRaises(ghana_table, coast_table)
       THEN /\ raised' = "KeyError"
            /\ UNCHANGED <<pc, files, stdout>>
       ELSE /\ files' = WriteFile(files, CombinedFile,
                            [chart |-> "plot_combined",
                             panels |-> CombinedFigure(ghana_table, coast_table)])
            /\ stdout' = Append(stdout,
                            [chart |-> "plot_combined", who |-> "both", msg |-> "saved"])
            /\ pc' = NextLine(pc)
            /\ UNCHANGED raised
    /\ UNCHANGED <<df, ghana_table, coast_table, infile, unitVars>>

\* line 174
Confirm ==
    /\ Running(174)
    /\ stdout' = Append(stdout, [chart |-> "none", who |-> "both", msg |-> "all outputs saved"])
    /\ pc' = NextLine(pc)
    /\ UNCHANGED <<raised, df, ghana_table, coast_table, files, passed, infile, unitVars>>

\* A statement that reads or writes the file system can fail (missing input,
\* unwritable directory, full disk); the exception ends main().
IOError ==
    /\ pc \in IOLines
    /\ raised = "none"
    /\ raised' = "OSError"
    /\ UNCHANGED <<pc, df, ghana_table, coast_table, files, stdout, passed, infile, unitVars>>

Next ==
    \/ Load
    \/ \E e \in Countries : Reshape(e)
    \/ \E e \in Countries : Clean(e)
    \/ \E e \in Countries : Save(e)
    \/ \E e \in Countries : Scatter(e)
    \/ \E e \in Countries : Bar(e)
    \/ Combined
    \/ Confirm
    \/ IOError

\* ---- the input files of main()

Text1961 == <<"1", "9", "6", "1">>
Text1962 == <<"1", "9", "6", "2">>
Text100 == <<"1", "0", "0">>

RawHeader == <<"Area", "Year", "Element", "Value">>

SeqsUpTo(S, n) == UNION {[1..k -> S] : k \in 0..n}

\* The lines of one country: any year (well-formed, unparsable, infinite),
\* either charted element, a value or none.
CountryLines(e) ==
    {<< <<e>>, y, <<m>>, v >> :
        y \in {Text1961, Text1962, <<"abc">>, <<"inf">>},
        m \in {"Area harvested", "Yield"},
        v \in {Text100, <<>>}}

\* The second country's lines: absent, one element only, both elements, and
\* both with a missing value.
CoastProfiles ==
    LET l(m, v) == << <<Coast>>, Text1961, <<m>>, v >>
    IN  { <<>>,
          << l("Yield", Text100) >>,
          << l("Yield", Text100), l("Area harvested", Text100) >>,
          << l("Yield", <<>>), l("Area harvested", Text100) >> }

MainFiles ==
    {[header |-> RawHeader, lines |-> g \o c] :
        g \in SeqsUpTo(CountryLines(Ghana), MaxRows), c \in CoastProfiles}

UnitIdle ==
    /\ entity = "none" /\ phase = "main"
    /\ arg = NoTable /\ ret = NoTable /\ labels = <<>>
    /\ reloaded = NoTable /\ ret2 = NoTable /\ pivot = NoTable

Init ==
    /\ infile \in MainFiles
    /\ pc = 155 /\ raised = "none"
    /\ df = NoTable /\ ghana_table = NoTable /\ coast_table = NoTable
    /\ files = <<>> /\ stdout = <<>> /\ passed = NoCall
    /\ UnitIdle

Spec == Init /\ [][Next]_vars

\* ------------------------------------------------- function-level scenarios

MainIdle ==
    /\ pc = 0 /\ raised = "none"
    /\ ghana_table = NoTable /\ coast_table = NoTable
    /\ passed = NoCall

\* ---- clean_and_sort on any table, then the sinks, then the file read back

Text19615 == <<"1", "9", "6", "1", ".", "5">>
Text25 == <<"2", ".", "5">>

YearTexts == {Text1961, Text19615, Text1962, <<"abc">>, <<>>, <<"inf">>}
MetricTexts == {Text100, Text25, <<"abc">>, <<>>}

\* Tables with a Year column and at most one metric column.
SeriesFiles ==
    {[header |-> <<"Year">>, lines |-> l] :
        l \in SeqsUpTo({<<y>> : y \in YearTexts}, MaxRows)}
    \cup
    {[header |-> <<"Year", m>>, lines |-> l] :
        m \in Range(MetricColumns),
        l \in SeqsUpTo({<<y, v>> : y \in YearTexts, v \in MetricTexts}, MaxRows)}

SeriesInit ==
    /\ infile \in SeriesFiles
    /\ arg = load_data(infile)
    /\ phase = "input" /\ entity = Ghana
    /\ ret = NoTable /\ labels = <<>> /\ reloaded = NoTable /\ ret2 = NoTable
    /\ pivot = NoTable /\ df = NoTable
    /\ files = <<>> /\ stdout = <<>>
    /\ MainIdle

mainIdleVars == <<pc, raised, ghana_table, coast_table, passed>>

\* ret = clean_and_sort(arg)
CallClean ==
    /\ phase = "input"
    /\ IF clean_raises(arg)
       THEN /\ phase' = "raised"
            /\ UNCHANGED <<ret, labels>>
       ELSE /\ \E o \in clean_and_sort(arg) : ret' = o.ret /\ labels' = o.labels
            /\ phase' = "cleaned"
    /\ UNCHANGED <<mainIdleVars, df, files, stdout, infile, entity, arg, reloaded, ret2, pivot>>

\* save_table(ret, output_dir, "table.csv")
CallSave ==
    /\ phase = "cleaned"
    /\ files' = WriteFile(files, "table.csv", to_csv(ret))
    /\ phase' = "saved"
    /\ UNCHANGED <<mainIdleVars, df, stdout, infile, entity, arg, ret, labels, reloaded, ret2, pivot>>

\* plot_scatter(ret, entity, output_dir, "scatter.png")
CallScatter ==
    /\ phase = "saved"
    /\ files' = PlotFiles(files, ret, "Yield", "plot_scatter", "scatter.png")
    /\ stdout' = Append(stdout, PlotNotice(ret, "Yield", "plot_scatter", entity))
    /\ phase' = "scattered"
    /\ UNCHANGED <<mainIdleVars, df, infile, entity, arg, ret, labels, reloaded, ret2, pivot>>

\* plot_bar(ret, entity, output_dir, "bar.png")
CallBar ==
    /\ phase = "scattered"
    /\ files' = PlotFiles(files, ret, "Area harvested", "plot_bar", "bar.png")
    /\ stdout' = Append(stdout, PlotNotice(ret, "Area harvested", "plot_bar", entity))
    /\ phase' = "charted"
    /\ UNCHANGED <<mainIdleVars, df, infile, entity, arg, ret, labels, reloaded, ret2, pivot>>

\* reloaded = load_data("table.csv")
CallReload ==
    /\ phase = "charted"
    /\ reloaded' = load_data(files["table.csv"])
    /\ phase' = "reloaded"
    /\ UNCHANGED <<mainIdleVars, df, files, stdout, infile, entity, arg, ret, labels, ret2, pivot>>

\* ret2 = clean_and_sort(reloaded)
CallReclean ==
    /\ phase = "reloaded"
    /\ IF clean_raises(reloaded)
       THEN /\ phase' = "raised"
            /\ UNCHANGED ret2
       ELSE /\ \E o \in clean_and_sort(reloaded) : ret2' = o.ret
            /\ phase' = "recleaned"
    /\ UNCHANGED <<mainIdleVars, df, files, stdout, infile, entity, arg, ret, labels, reloaded, pivot>>

SeriesNext ==
    \/ CallClean
    \/ CallSave
    \/ CallScatter
    \/ CallBar
    \/ CallReload
    \/ CallReclean

SpecSeries == SeriesInit /\ [][SeriesNext]_vars

\* ---- process_countries_data on any raw table

Text200 == <<"2", "0", "0">>

ReshapeLines ==
    {<< <<a>>, y, e, v >> :
        a \in {Ghana, "Togo"},
        y \in {Text1961, Text1962, <<>>},
        e \in {<<"Yield">>, <<"Production">>},
        v \in {Text100, Text200, <<>>}}

ReshapeFiles ==
    {[header |-> RawHeader, lines |-> l] : l \in SeqsUpTo(ReshapeLines, MaxRows)}

ReshapeInit ==
    /\ infile \in ReshapeFiles
    /\ phase = "file" /\ entity = Ghana
    /\ df = NoTable /\ pivot = NoTable
    /\ arg = NoTable /\ ret = NoTable /\ labels = <<>>
    /\ reloaded = NoTable /\ ret2 = NoTable
    /\ files = <<>> /\ stdout = <<>>
    /\ MainIdle

\* df = load_data(file)
CallLoad ==
    /\ phase = "file"
    /\ df' = load_data(infile)
    /\ phase' = "loaded"
    /\ UNCHANGED <<mainIdleVars, files, stdout, infile, entity, arg, ret, labels, reloaded, ret2, pivot>>

\* pivot = process_countries_data(df, entity)
CallReshape ==
    /\ phase = "loaded"
    /\ pivot' = process_countries_data(df, entity)
    /\ phase' = "reshaped"
    /\ UNCHANGED <<mainIdleVars, df, files, stdout, infile, entity, arg, ret, labels, reloaded, ret2>>

ReshapeNext ==
    \/ CallLoad
    \/ CallReshape

SpecReshape == ReshapeInit /\ [][ReshapeNext]_vars

\* ------------------------------------------------- properties: clean_and_sort

\* clean_and_sort has returned ret for arg.
Cleaned == phase \in {"cleaned", "saved", "scattered", "charted", "reloaded", "recleaned"}

\* The cell is a number, or a text that reads as one.
Parsable(c) ==
    \/ c.t \in {"int", "float", "inf"}
    \/ c.t = "str" /\ IsNumericText(c.s)

\* The value of a finite numeric cell, in tenths.
Tenths(c) == IF c.t = "int" THEN 10 * c.v ELSE c.v

\* Cell r holds the number that cell o is or spells.
SameNumber(r, o) ==
    LET n == IF o.t = "str" THEN ParseFloat(o.s) ELSE o
    IN  \/ n.t = "inf" /\ r.t = "inf"
        \/ /\ n.t \in {"int", "float"}
           /\ r.t \in {"int", "float"}
           /\ Tenths(r) = Tenths(n)

\* The row of arg that became row k of ret.
Origin(k) == arg.rows[labels[k] + 1]

RetainedInputs == {i \in 1..Len(arg.rows) : Parsable(arg.rows[i]["Year"])}

\* C1: whenever clean_and_sort returns, an input row is absent from the result
\* if and only if its Year cannot be parsed as a number, each retained row
\* occurs once, and every Year of the result is an integer.
C1_YearFilter ==
    Cleaned =>
        /\ \A i \in 1..Len(arg.rows) :
              (\E k \in 1..Len(labels) : labels[k] = arg.index[i])
                  <=> Parsable(arg.rows[i]["Year"])
        /\ \A j, k \in 1..Len(labels) : j # k => labels[j] # labels[k]
        /\ Len(ret.rows) = Len(labels)
        /\ \A k \in 1..Len(ret.rows) : ret.rows[k]["Year"].t = "int"

\* C1 witness: a result that lost a row with an unparsable Year and kept a row
\* whose Year had to be converted to an integer.
C1_Witness ==
    /\ phase = "cleaned"
    /\ \E i \in 1..Len(arg.rows) : ~Parsable(arg.rows[i]["Year"])
    /\ \E k \in 1..Len(ret.rows) : Origin(k)["Year"].t # "int"

SortedByYear(t) ==
    \A k \in 1..(Len(t.rows) - 1) : t.rows[k]["Year"].v <= t.rows[k + 1]["Year"].v

\* C8 as stated: the result is sorted ascending by integer Year, rows with equal
\* Year keep the relative order they had in the input, and the index is 0..n-1.
C8_StableSort ==
    Cleaned =>
        /\ SortedByYear(ret)
        /\ \A j, k \in 1..Len(ret.rows) :
              (j < k /\ ret.rows[j]["Year"] = ret.rows[k]["Year"]) => labels[j] < labels[k]
        /\ ret.index = RangeIndex(Len(ret.rows))

\* C8 amended: the result is sorted ascending by integer Year and its index is
\* 0..n-1; rows with equal Year come in either relative order.
C8_SortedReindexed ==
    Cleaned =>
        /\ \A k \in 1..Len(ret.rows) : ret.rows[k]["Year"].t = "int"
        /\ SortedByYear(ret)
        /\ Len(ret.index) = Len(ret.rows)
        /\ \A k \in 1..Len(ret.index) : ret.index[k] = k - 1

\* C8 witness: a result of two rows in ascending Year order that stood in
\* descending order in the input, relabelled 0, 1.
C8_Witness ==
    /\ phase = "cleaned"
    /\ Len(ret.rows) >= 2
    /\ ret.rows[1]["Year"].v < ret.rows[2]["Year"].v
    /\ labels[1] > labels[2]
    /\ ret.index # labels

PresentMetrics(t) == {c \in Range(MetricColumns) : \E j \in 1..Len(t.cols) : t.cols[j] = c}

\* C9: an unparsable metric value clears only its cell: the result has one row
\* per input row with a parsable Year, the same columns, every parsable metric
\* cell with its number and every other metric cell missing.
C9_MetricCells ==
    Cleaned =>
        /\ Len(ret.rows) = Cardinality(RetainedInputs)
        /\ ret.cols = arg.cols
        /\ \A k \in 1..Len(ret.rows) : \A c \in PresentMetrics(arg) :
              IF Parsable(Origin(k)[c])
              THEN SameNumber(ret.rows[k][c], Origin(k)[c])
              ELSE isna(ret.rows[k][c])

\* C9 witness: a retained row whose metric cell held an unparsable text and is
\* now missing.
C9_Witness ==
    /\ phase = "cleaned"
    /\ \E k \in 1..Len(ret.rows) : \E c \in PresentMetrics(arg) :
          /\ Origin(k)[c].t = "str"
          /\ ~Parsable(Origin(k)[c])
          /\ isna(ret.rows[k][c])

\* ------------------------------------------ properties: plot_scatter, plot_bar

AbsentOrAllMissing(t, metric) ==
    \/ \A j \in 1..Len(t.cols) : t.cols[j] # metric
    \/ \A i \in 1..Len(t.rows) : isna(t.rows[i][metric])

Printed(chart, msgs) ==
    \E k \in 1..Len(stdout) : stdout[k].chart = chart /\ stdout[k].msg \in msgs

SkipMessages == {"column not found", "no valid values"}

ChartDone(chart) ==
    IF chart = "plot_scatter" THEN phase \in {"scattered", "charted", "reloaded", "recleaned"}
    ELSE phase \in {"charted", "reloaded", "recleaned"}

ChartOutcome(chart, metric, filename) ==
    ChartDone(chart) =>
        IF AbsentOrAllMissing(ret, metric)
        THEN filename \notin DOMAIN files /\ Printed(chart, SkipMessages)
             /\ ~Printed(chart, {"saved"})
        ELSE filename \in DOMAIN files /\ Printed(chart, {"saved"})
             /\ ~Printed(chart, SkipMessages)

\* C3: plot_scatter (Yield) and plot_bar (Area harvested) always return; they
\* write no file and print a skip notice when the metric column is absent or
\* all its values are missing, and otherwise write exactly their one file.
C3_SkipOrOneFile ==
    /\ phase = "saved" => ENABLED CallScatter
    /\ phase = "scattered" => ENABLED CallBar
    /\ ChartOutcome("plot_scatter", "Yield", "scatter.png")
    /\ ChartOutcome("plot_bar", "Area harvested", "bar.png")
    /\ DOMAIN files \subseteq {"table.csv", "scatter.png", "bar.png"}

\* C3 witness: plot_scatter skipped a table whose Yield column is present but
\* holds no value.
C3_Witness ==
    /\ phase = "scattered"
    /\ \E j \in 1..Len(ret.cols) : ret.cols[j] = "Yield"
    /\ Len(ret.rows) > 0
    /\ "scatter.png" \notin DOMAIN files

\* ----------------------------------------------------- properties: round trip

Reshaped == phase = "reshaped"

\* The rows of df for the entity with this Year and Element, in input order.
Members(y, m) ==
    SelectSeq(Positions(Len(df.rows)),
        LAMBDA i : /\ df.rows[i]["Area"] = Str(<<entity>>)
                   /\ df.rows[i]["Year"] = y
                   /\ df.rows[i]["Element"] = Str(<<m>>))

InputYears == {df.rows[i]["Year"] : i \in 1..Len(df.rows)} \ {NaN}

PivotRowsOf(y) == {k \in 1..Len(pivot.rows) : pivot.rows[k]["Year"] = y}

\* The cell of the reshaped table for Year y and Element m; missing when the
\* table has no such row or column.
PivotCell(y, m) ==
    IF PivotRowsOf(y) # {} /\ (\E j \in 1..Len(pivot.cols) : pivot.cols[j] = m)
    THEN pivot.rows[CHOOSE k \in PivotRowsOf(y) : TRUE][m]
    ELSE NaN

CellHolds(y, m, value) ==
    IF isna(value) THEN isna(PivotCell(y, m)) ELSE SameNumber(PivotCell(y, m), value)

\* C2 as stated: when several rows of the entity share (Year, Element), the
\* cell holds the Value of the first of them in input order, whatever it is,
\* a missing one included.
C2_FirstRowWins ==
    Reshaped =>
        \A y \in InputYears : \A m \in Range(MetricColumns) :
            Len(Members(y, m)) >= 2 =>
                CellHolds(y, m, df.rows[Members(y, m)[1]]["Value"])

\* C2 amended: the reshaped table has one row per Year, and the cell holds the
\* Value of the first of the rows sharing (Year, Element) whose Value is not
\* missing; it is missing only when all their Values are.
C2_FirstValidWins ==
    Reshaped =>
        /\ \A y \in InputYears : Cardinality(PivotRowsOf(y)) <= 1
        /\ \A y \in InputYears : \A m \in Range(MetricColumns) :
              LET rows == Members(y, m)
                  valid == {k \in 1..Len(rows) : ~isna(df.rows[rows[k]]["Value"])}
              IN  IF valid = {} THEN isna(PivotCell(y, m))
                  ELSE \E k \in valid :
                          /\ \A j \in valid : k <= j
                          /\ SameNumber(PivotCell(y, m), df.rows[rows[k]]["Value"])

\* C2 witness: two rows of the entity share (Year, Element) with different
\* Values, and the cell holds the first.
C2_Witness ==
    /\ Reshaped
    /\ \E y \in InputYears : \E m \in Range(MetricColumns) :
          /\ Len(Members(y, m)) >= 2
          /\ ~isna(df.rows[Members(y, m)[1]]["Value"])
          /\ ~isna(df.rows[Members(y, m)[2]]["Value"])
          /\ df.rows[Members(y, m)[1]]["Value"] # df.rows[Members(y, m)[2]]["Value"]
          /\ SameNumber(PivotCell(y, m), df.rows[Members(y, m)[1]]["Value"])

\* ------------------------------------------------------- properties: main()

ChartLines == {161, 162, 168, 169, 172}

\* C4: missing data never aborts a run: no chart step of main() (scatter, bar,
\* combined) raises for a loaded table; only a file-system failure can end it.
C4_ChartsNeverRaise == pc \in ChartLines => raised \in {"none", "OSError"}

ZeroRows(e) == \A i \in 1..Len(infile.lines) : infile.lines[i][1] # <<e>>

SkipPrinted(chart, e) ==
    \E k \in 1..Len(stdout) :
        stdout[k].chart = chart /\ stdout[k].who = e /\ stdout[k].msg \in SkipMessages

\* C5: for an entity with no row in the raw table, reshape and clean yield an
\* empty table without raising, save_table writes a header-only file, and
\* plot_scatter, plot_bar and plot_combined skip instead of raising.
C5_ZeroRowEntity ==
    \A e \in Countries :
        ZeroRows(e) =>
            /\ pc = CleanLine(e) => raised = "none"
            /\ pc > ReshapeLine(e) => Len(TableOf(e).rows) = 0
            /\ pc > SaveLine(e) =>
                  /\ files[TableFile(e)].header = TableOf(e).cols
                  /\ files[TableFile(e)].lines = <<>>
            /\ pc > ScatterLine(e) =>
                  SkipPrinted("plot_scatter", e) /\ ScatterFile(e) \notin DOMAIN files
            /\ pc > BarLine(e) =>
                  SkipPrinted("plot_bar", e) /\ BarFile(e) \notin DOMAIN files
            /\ pc \in {ScatterLine(e), BarLine(e), 172} => raised \in {"none", "OSError"}

MainOrder == <<155, 158, 159, 160, 161, 162, 165, 166, 167, 168, 169, 172, 174, 175>>

\* The line of main() that produces the artefact.
ArtefactLine(name) ==
    CASE name = "ghana_table.csv" -> 160
      [] name = "ghana_yield_scatter.png" -> 161
      [] name = "ghana_area_bar.png" -> 162
      [] name = "coast_table.csv" -> 167
      [] name = "coast_yield_scatter.png" -> 168
      [] name = "coast_area_bar.png" -> 169
      [] name = "combined_plots.pdf" -> 172

ConfirmPrinted == \E k \in 1..Len(stdout) : stdout[k].msg = "all outputs saved"

C7_Inv ==
    /\ \E i \in 1..Len(MainOrder) : MainOrder[i] = pc
    /\ \A n \in DOMAIN files : ArtefactLine(n) < pc
    /\ pc > 160 => "ghana_table.csv" \in DOMAIN files
    /\ pc > 167 => "coast_table.csv" \in DOMAIN files
    /\ pc > 172 => "combined_plots.pdf" \in DOMAIN files
    /\ ConfirmPrinted <=> pc = 175
    /\ (raised # "none" /\ pc <= 162) =>
          \A n \in DOMAIN files : ArtefactLine(n) <= 162

C7_Step ==
    /\ \/ pc' = pc
       \/ /\ raised = "none" /\ raised' = "none"
          /\ \E i \in 1..(Len(MainOrder) - 1) : MainOrder[i] = pc /\ MainOrder[i + 1] = pc'
    /\ raised # "none" => UNCHANGED vars
    /\ \A n \in DOMAIN files : n \in DOMAIN files' /\ files'[n] = files[n]

\* C7: main() runs its steps in one fixed order (load; reshape, clean, write,
\* scatter, bar for Ghana; the same for Cote d'Ivoire; combined; confirmation),
\* each only after every earlier one completed without error; after a failure
\* nothing more runs, so a failure in a Ghana step leaves no Cote d'Ivoire
\* artefact and no combined chart, and the files already written stay.
C7_FixedOrder == []C7_Inv /\ [][C7_Step]_vars

\* C7 witness: a Ghana step failed after the Ghana table had been written.
C7_Witness ==
    /\ pc = 161
    /\ raised = "OSError"
    /\ DOMAIN files = {"ghana_table.csv"}

====
